---------------------------- MODULE Spec2Model ----------------------------
(***************************************************************************)
(* A model of the EVE market-order line parser.  The repository holds two  *)
(* variants of the same translation unit:                                  *)
(*                                                                         *)
(*   src/eve_parser.c       scanners that skip leading non-digits, the     *)
(*                          validation inlined in each entry point;        *)
(*   src/unnamed/part_000   scanners that do not skip, a fixed three-byte  *)
(*                          step between fields, has_badval.               *)
(*                                                                         *)
(* Definitions named as in the source model src/eve_parser.c; the          *)
(* definitions of the other variant carry the suffix _part000.  ejday,     *)
(* pt_to_utc and parser_factory are the same in both files.                *)
(*                                                                         *)
(* C's unsigned arithmetic is kept at its width.  A value of an unsigned   *)
(* type is a Word: four 16-bit limbs, least significant first, holding a   *)
(* number below 2^64; a 32-bit value has its two upper limbs zero.         *)
(***************************************************************************)
EXTENDS Integers, Sequences, FiniteSets, TLC

VARIABLES
    impl,       \* which source file is compiled: "eve_parser" or "part_000"
    argOrder,   \* the order the build evaluates ejday's three arguments in
    line,       \* the input line, a sequence of characters (no terminator)
    tail,       \* the bytes that follow the line's terminator in memory
    pc,         \* "ready" | "parser" | "parsed" | "done"; "date" | "dated"
    entry,      \* the entry point that was called
    stmt,       \* the statement of parser() that runs next
    asm,        \* the record parser() is filling, with its read cursor
    rec,        \* the caller's record after the entry point returned
    status,     \* the entry point's return value
    date,       \* <<year, month, day>> handed to parser_factory
    chosen,     \* the entry point parser_factory returned
    ejd,        \* ejday(year, month, day), a Word
    written     \* the field texts the line was written from

vars == <<impl, argOrder, line, tail, pc, entry, stmt, asm, rec, status, date, chosen,
          ejd, written>>

-----------------------------------------------------------------------------
(* Fixed-width unsigned arithmetic                                          *)

\* The one element of a singleton.  The({ e(x) : x \in {d} }) is e with x
\* standing for the value of d: d is evaluated once, as a C local is.
The(S) == CHOOSE v \in S : TRUE

Limb == 2^16

\* The two's complement image, modulo 2^64, of an integer below 2^31 in size.
W(x) ==
    The({ <<n % Limb, (n \div Limb) % Limb, ((n \div Limb) \div Limb) % Limb,
            (((n \div Limb) \div Limb) \div Limb) % Limb>> : n \in {x} })

T32(x) == The({ <<a[1], a[2], 0, 0>> : a \in {x} })
T16(x) == x[1]
T8(x) == x[1] % 256

W32(n) == T32(W(n))

AddW(x, y) ==
    The({ LET s1 == a[1] + b[1]
              s2 == a[2] + b[2] + s1 \div Limb
              s3 == a[3] + b[3] + s2 \div Limb
              s4 == a[4] + b[4] + s3 \div Limb
          IN  <<s1 % Limb, s2 % Limb, s3 % Limb, s4 % Limb>> : a \in {x}, b \in {y} })

NegW(x) ==
    The({ AddW(<<Limb - 1 - a[1], Limb - 1 - a[2], Limb - 1 - a[3], Limb - 1 - a[4]>>,
               <<1, 0, 0, 0>>) : a \in {x} })

SubW(a, b) == AddW(a, NegW(b))

\* a * k modulo 2^64, for 0 <= k <= 2^15 (no intermediate exceeds 2^31 - 1).
MulK(x, k) ==
    The({ LET p1 == a[1] * k
              p2 == a[2] * k + p1 \div Limb
              p3 == a[3] * k + p2 \div Limb
              p4 == a[4] * k + p3 \div Limb
          IN  <<p1 % Limb, p2 % Limb, p3 % Limb, p4 % Limb>> : a \in {x} })

\* a * k modulo 2^64, for any k >= 0.
RECURSIVE MulW(_, _)
MulW(x, k) ==
    IF k <= 2^15 THEN MulK(x, k)
    ELSE The({ AddW(MulK(a, k % 2^15), MulK(MulW(a, k \div 2^15), 2^15)) : a \in {x} })

\* a / k, for 0 < k < 2^15.
DivK(x, k) ==
    The({ LET d4 == a[4]
              d3 == (d4 % k) * Limb + a[3]
              d2 == (d3 % k) * Limb + a[2]
              d1 == (d2 % k) * Limb + a[1]
          IN  <<d1 \div k, d2 \div k, d3 \div k, d4 \div k>> : a \in {x} })

LessW(x, y) ==
    \E a \in {x}, b \in {y} :
        \/ a[4] < b[4]
        \/ a[4] = b[4] /\ a[3] < b[3]
        \/ a[4] = b[4] /\ a[3] = b[3] /\ a[2] < b[2]
        \/ a[4] = b[4] /\ a[3] = b[3] /\ a[2] = b[2] /\ a[1] < b[1]

Add32(a, b) == T32(AddW(a, b))
Sub32(a, b) == T32(SubW(a, b))
Mul32(a, k) == T32(MulW(a, k))

-----------------------------------------------------------------------------
(* Characters and memory                                                    *)

NUL == ""
DigitChars == <<"0", "1", "2", "3", "4", "5", "6", "7", "8", "9">>

Digit == {DigitChars[i] : i \in 1..10}
isdigit(c) == c \in Digit

\* The character's code, as the C expressions `c - '0'` read it.
Ord(x) ==
    The({ CASE c = NUL  -> 0
            [] c = " "  -> 32
            [] c = "\"" -> 34
            [] c = ","  -> 44
            [] c = "-"  -> 45
            [] c = "."  -> 46
            [] c = ":"  -> 58
            [] OTHER    -> 47 + (CHOOSE i \in 1..10 : DigitChars[i] = c) : c \in {x} })

\* The line as it lies in memory: its characters, the terminator, whatever
\* follows.  A read beyond the modelled bytes sees zero.
Mem(l, t) == l \o <<NUL>> \o t
At(mem, q) == The({ IF p <= Len(mem) THEN mem[p] ELSE NUL : p \in {q} })

-----------------------------------------------------------------------------
(* Calendar and time zone (the same text in both files)                     *)

E_JDAY == 719558
SEC_PER_DAY == 86400
SEC_PER_HOUR == 3600
SEC_PER_MIN == 60

\* year, month, day are unsigned int; the result is uint32_t.
ejday(y, m, d) ==
    The({ Mul32(Sub32(Sub32(Add32(Add32(Add32(Sub32(Add32(
              Mul32(year, 365),
              DivK(year, 4)),
              DivK(year, 100)),
              DivK(year, 400)),
              DivK(Add32(Mul32(month, 306), W(5)), 10)),
              day),
              W(1)),
              W(E_JDAY)),
              SEC_PER_DAY) : year \in {y}, month \in {m}, day \in {d} })

D2006040203 == 1144033200
D2006102901 == 1162256400
D2007031103 == 1173754800

pt_to_utc(t) ==
    The({ IF LessW(pacificTime, W(D2006040203))
              THEN Add32(pacificTime, W(8 * SEC_PER_HOUR))
          ELSE IF LessW(pacificTime, W(D2006102901))
              THEN Add32(pacificTime, W(7 * SEC_PER_HOUR))
          ELSE IF LessW(pacificTime, W(D2007031103))
              THEN Add32(pacificTime, W(8 * SEC_PER_HOUR))
          ELSE Add32(pacificTime, W(7 * SEC_PER_HOUR)) : pacificTime \in {t} })

D20070101 == 1167609600
D20071001 == 1191369600

\* parsedTime is a uint64_t holding ejday's uint32_t.
parser_factory(yr, mn, dy) ==
    The({ IF LessW(parsedTime, W(D20070101)) THEN "parse_pt_bo"
          ELSE IF LessW(parsedTime, W(D20071001)) THEN "parse_pt"
          ELSE "parse" : parsedTime \in {ejday(W32(yr), W32(mn), W32(dy))} })

\* The build's choice of the order in which a call's arguments are evaluated
\* (C leaves it unspecified): order[i] is the parameter the i-th scanned number
\* lands in.  Left to right and right to left are the orders compilers produce.
LeftToRight == <<1, 2, 3>>
RightToLeft == <<3, 2, 1>>
ArgOrders == {LeftToRight, RightToLeft}
ArgOf(order, ns, k) == ns[CHOOSE i \in 1..3 : order[i] = k].val

\* The record before parser() has filled it, and the cursor at the line's start.
NoRec == [orderID |-> W(0), regionID |-> W(0), systemID |-> W(0), stationID |-> W(0),
          typeID |-> W(0), bid |-> 0, price |-> W(0), volMin |-> W(0), volRem |-> W(0),
          volEnt |-> W(0), issued |-> W(0), duration |-> 0, range |-> 0,
          reportedby |-> W(0), rtime |-> W(0)]
Blank == NoRec @@ [pos |-> 1]

\* rec->f = (the scanned value); the cursor is where the scan left it.
Store(st, f, scan) == The({ [st EXCEPT ![f] = r.val, !.pos = r.pos] : r \in {scan} })
\* A scan into a local variable: only the cursor moves.
Local(st, scan) == [st EXCEPT !.pos = scan.pos]

-----------------------------------------------------------------------------
(* src/eve_parser.c                                                         *)

\* int range; -1 is the 32-bit pattern of all ones.
range_to_byte(x) ==
    The({ CASE range = W32(-1)    -> -1
            [] range = W32(0)     -> 0
            [] range = W32(5)     -> 5
            [] range = W32(10)    -> 10
            [] range = W32(20)    -> 20
            [] range = W32(40)    -> 40
            [] range = W32(32767) -> 127
            [] range = W32(65535) -> 127
            [] OTHER              -> -2 : range \in {x} })

\* while (!isdigit(*str) && *str != '\0') str++;
RECURSIVE SkipNonDigits(_, _)
SkipNonDigits(mem, q) ==
    The({ IF ~isdigit(At(mem, p)) /\ At(mem, p) # NUL THEN SkipNonDigits(mem, p + 1)
          ELSE p : p \in {q} })

\* while (isdigit(*str)) val = val * 10 + *str++ - '0';
RECURSIVE ScanDigits(_, _, _)
ScanDigits(mem, q, v) ==
    The({ IF isdigit(At(mem, p))
          THEN ScanDigits(mem, p + 1, AddW(MulK(val, 10), W(Ord(At(mem, p)) - Ord("0"))))
          ELSE [val |-> val, pos |-> p] : p \in {q}, val \in {v} })

parse_uint64(mem, p) == ScanDigits(mem, SkipNonDigits(mem, p), W(0))

parse_uint32(mem, p) ==
    The({ [val |-> T32(r.val), pos |-> r.pos] : r \in {parse_uint64(mem, p)} })

\* The int is kept as its 32-bit pattern; the digit runs of the modelled lines
\* stay below 2^31, where signed and unsigned accumulation agree.
parse_int(mem, p) ==
    The({ [val |-> T32(r.val), pos |-> r.pos] : r \in {parse_uint64(mem, p)} })

RECURSIVE SkipToRange(_, _)
SkipToRange(mem, q) ==
    The({ IF ~isdigit(At(mem, p)) /\ At(mem, p) # NUL /\ At(mem, p) # "-"
          THEN SkipToRange(mem, p + 1)
          ELSE p : p \in {q} })

\* On a minus sign the function returns before `*s = str`: the cursor stays.
parse_range(mem, p) ==
    The({ IF At(mem, q) = "-" THEN [val |-> -1, pos |-> p0]
          ELSE The({ [val |-> range_to_byte(r.val), pos |-> r.pos] :
                     r \in {parse_int(mem, q)} }) :
          p0 \in {p}, q \in {SkipToRange(mem, p)} })

\* Three parse_int calls in a row, as they stand in ejday's argument list and
\* in the hour, minute, second terms.
parse_int3(mem, p) ==
    The({ The({ The({ <<n1, n2, n3>> :
                      n3 \in {parse_int(mem, n2.pos)} }) :
                n2 \in {parse_int(mem, n1.pos)} }) :
          n1 \in {parse_int(mem, p)} })

\* ejday(parse_int, parse_int, parse_int) + hour * SEC_PER_HOUR + ... + sec
datetime_sum(order, ymd, hms) ==
    Add32(Add32(Add32(ejday(ArgOf(order, ymd, 1), ArgOf(order, ymd, 2), ArgOf(order, ymd, 3)),
                      Mul32(hms[1].val, SEC_PER_HOUR)),
                Mul32(hms[2].val, SEC_PER_MIN)),
          hms[3].val)

\* if (isdigit(*str) && *str - '0' > 5) ++: the byte the cursor rests on.
parser_datetime(mem, p, order) ==
    The({ The({ The({ [val |-> IF isdigit(At(mem, hms[3].pos))
                                  /\ Ord(At(mem, hms[3].pos)) - Ord("0") > 5
                               THEN Add32(v, W(1)) ELSE v,
                       pos |-> hms[3].pos] :
                      v \in {datetime_sum(order, ymd, hms)} }) :
                hms \in {parse_int3(mem, ymd[3].pos)} }) :
          ymd \in {parse_int3(mem, p)} })

\* parser_price with the first fractional digit added unscaled (the `* 10` left
\* out): the variant the price property is tried against.
parser_price_unscaled(mem, p) ==
    The({ IF At(mem, w.pos) # "." THEN [val |-> MulK(w.val, 100), pos |-> w.pos]
          ELSE The({ IF isdigit(At(mem, w.pos + 2))
                     THEN [val |-> AddW(p1, W(Ord(At(mem, w.pos + 2)) - Ord("0"))),
                           pos |-> w.pos + 3]
                     ELSE [val |-> p1, pos |-> w.pos + 2] :
                     p1 \in {AddW(MulK(w.val, 100),
                                  W(Ord(At(mem, w.pos + 1)) - Ord("0")))} }) :
          w \in {parse_uint64(mem, p)} })

\* price: parse_uint64 * 100, then the optional cents.
parser_price(mem, p) ==
    The({ IF At(mem, w.pos) # "." THEN [val |-> MulK(w.val, 100), pos |-> w.pos]
          ELSE The({ IF isdigit(At(mem, w.pos + 2))
                     THEN [val |-> AddW(p1, W(Ord(At(mem, w.pos + 2)) - Ord("0"))),
                           pos |-> w.pos + 3]
                     ELSE [val |-> p1, pos |-> w.pos + 2] :
                     p1 \in {AddW(MulK(w.val, 100),
                                  W((Ord(At(mem, w.pos + 1)) - Ord("0")) * 10))} }) :
          w \in {parse_uint64(mem, p)} })

Narrow8(scan) == The({ [val |-> T8(r.val), pos |-> r.pos] : r \in {scan} })
Narrow16(scan) == The({ [val |-> T16(r.val), pos |-> r.pos] : r \in {scan} })
Narrow32(scan) == The({ [val |-> T32(r.val), pos |-> r.pos] : r \in {scan} })

\* The k-th statement of parser(), applied to the record and cursor st.
parser_stmt(mem, order, st, k) ==
    CASE k = 1  -> Store(st, "orderID", parse_uint64(mem, st.pos))
      [] k = 2  -> Store(st, "regionID", parse_uint32(mem, st.pos))
      [] k = 3  -> Store(st, "systemID", parse_uint32(mem, st.pos))
      [] k = 4  -> Store(st, "stationID", parse_uint32(mem, st.pos))
      [] k = 5  -> Store(st, "typeID", parse_uint32(mem, st.pos))
      [] k = 6  -> Store(st, "bid", Narrow8(parse_int(mem, st.pos)))
      [] k = 7  -> Store(st, "price", parser_price(mem, st.pos))
      [] k = 8  -> Store(st, "volMin", parse_uint32(mem, st.pos))
      [] k = 9  -> Store(st, "volRem", parse_uint32(mem, st.pos))
      [] k = 10 -> Store(st, "volEnt", parse_uint32(mem, st.pos))
      [] k = 11 -> Store(st, "issued", parser_datetime(mem, st.pos, order))
      [] k = 12 -> Store(st, "duration", Narrow16(parse_uint32(mem, st.pos)))
      [] k = 13 -> Local(st, parse_int(mem, st.pos))
      [] k = 14 -> Local(st, parse_int(mem, st.pos))
      [] k = 15 -> Local(st, parse_int(mem, st.pos))
      [] k = 16 -> Store(st, "range", parse_range(mem, st.pos))
      [] k = 17 -> Store(st, "reportedby", parse_uint64(mem, st.pos))
      [] k = 18 -> Store(st, "rtime", parser_datetime(mem, st.pos, order))

\* parser() runs its statements first..last in order, from Blank.
parser_first == 1
parser_last == 18

\* The record without the cursor: what the caller's struct holds.
Fields(x) == The({ [f \in DOMAIN r \ {"pos"} |-> r[f]] : r \in {x} })

\* rec->issued = pt_to_utc(rec->issued); rec->rtime = pt_to_utc(rec->rtime);
corrected(x) ==
    The({ [r EXCEPT !.issued = pt_to_utc(r.issued), !.rtime = pt_to_utc(r.rtime)] :
          r \in {x} })

\* buy_range with the test on bid inverted: the variant the buy order property
\* is tried against.
buy_range_inverted(x) ==
    The({ IF r.bid # 1 THEN [r EXCEPT !.range = range_to_byte(W32(-1))] ELSE r : r \in {x} })

\* if (rec->bid == 1) rec->range = range_to_byte(-1);
buy_range(x) ==
    The({ IF r.bid = 1 THEN [r EXCEPT !.range = range_to_byte(W32(-1))] ELSE r : r \in {x} })

\* Each entry point, from the return of its parser() call on: a is the record
\* parser() assembled; the result is the return value and the caller's record.
parse_pt_bo(a) ==
    IF a.bid > 1 THEN [status |-> 1, rec |-> Fields(a)]
    ELSE The({ IF r1.range = -2 \/ LessW(r1.rtime, r1.issued)
               THEN [status |-> 1, rec |-> r1]
               ELSE [status |-> 0, rec |-> corrected(r1)] :
               r1 \in {buy_range(Fields(a))} })

parse_pt(a) ==
    IF a.range = -2 \/ LessW(a.rtime, a.issued)
    THEN [status |-> 1, rec |-> Fields(a)]
    ELSE [status |-> 0, rec |-> corrected(Fields(a))]

parse(a) ==
    IF a.range = -2 \/ LessW(a.rtime, a.issued)
    THEN [status |-> 1, rec |-> Fields(a)]
    ELSE [status |-> 0, rec |-> Fields(a)]

-----------------------------------------------------------------------------
(* src/unnamed/part_000                                                     *)

\* while (isdigit(**s)) { val = val * 10 + (unsigned int)**s - '0'; *s += 1; }
RECURSIVE ScanDigits_part000(_, _, _)
ScanDigits_part000(mem, q, v) ==
    The({ IF isdigit(At(mem, p))
          THEN ScanDigits_part000(mem, p + 1,
                                  AddW(MulK(val, 10), W(Ord(At(mem, p)) - Ord("0"))))
          ELSE [val |-> val, pos |-> p] : p \in {q}, val \in {v} })

parse_uint64_part000(mem, p) == ScanDigits_part000(mem, p, W(0))

\* unsigned int range: no case for -1.
range_to_byte_part000(x) ==
    The({ CASE range = W32(0)     -> 0
            [] range = W32(5)     -> 5
            [] range = W32(10)    -> 10
            [] range = W32(20)    -> 20
            [] range = W32(40)    -> 40
            [] range = W32(32767) -> 127
            [] range = W32(65535) -> 127
            [] OTHER              -> -2 : range \in {x} })

\* while (isdigit(**s)) *s += 1;
RECURSIVE SkipDigits_part000(_, _)
SkipDigits_part000(mem, q) ==
    The({ IF isdigit(At(mem, p)) THEN SkipDigits_part000(mem, p + 1) ELSE p : p \in {q} })

parse_range_part000(mem, q) ==
    The({ IF At(mem, p) = "-" THEN [val |-> -1, pos |-> SkipDigits_part000(mem, p + 1)]
          ELSE The({ [val |-> range_to_byte_part000(T32(r.val)), pos |-> r.pos] :
                     r \in {parse_uint64_part000(mem, p)} }) :
          p \in {q} })

\* Three parse_uint64 calls in a row, each narrowed to unsigned int.
parse_uint3_part000(mem, p) ==
    The({ The({ The({ <<Narrow32(n1), Narrow32(n2), Narrow32(n3)>> :
                      n3 \in {parse_uint64_part000(mem, n2.pos)} }) :
                n2 \in {parse_uint64_part000(mem, n1.pos)} }) :
          n1 \in {parse_uint64_part000(mem, p)} })

\* if (**s == '.') { *s += 1; round on **s; skip the digits }
parse_datetime_part000(mem, p, order) ==
    The({ The({ The({ IF At(mem, hms[3].pos) # "." THEN [val |-> v, pos |-> hms[3].pos]
                      ELSE [val |-> IF isdigit(At(mem, hms[3].pos + 1))
                                       /\ Ord(At(mem, hms[3].pos + 1)) - Ord("0") > 5
                                    THEN Add32(v, W(1)) ELSE v,
                            pos |-> SkipDigits_part000(mem, hms[3].pos + 1)] :
                      v \in {datetime_sum(order, ymd, hms)} }) :
                hms \in {parse_uint3_part000(mem, ymd[3].pos)} }) :
          ymd \in {parse_uint3_part000(mem, p)} })

\* The cents are computed as uint32_t before they are added to the price.
parser_price_part000(mem, p) ==
    The({ IF At(mem, w.pos) # "." THEN [val |-> MulK(w.val, 100), pos |-> w.pos]
          ELSE The({ IF isdigit(At(mem, w.pos + 2))
                     THEN [val |-> AddW(p1, W32(Ord(At(mem, w.pos + 2)) - Ord("0"))),
                           pos |-> w.pos + 3]
                     ELSE [val |-> p1, pos |-> w.pos + 2] :
                     p1 \in {AddW(MulK(w.val, 100),
                                  Mul32(W32(Ord(At(mem, w.pos + 1)) - Ord("0")), 10))} }) :
          w \in {parse_uint64_part000(mem, p)} })

\* The k-th statement of parser(); every `str += 3` steps over the three bytes
\* "," between two quoted fields.
parser_stmt_part000(mem, order, st, k) ==
    CASE k = 0  -> Local(st, [pos |-> IF At(mem, st.pos) = "\"" THEN st.pos + 1 ELSE st.pos])
      [] k = 1  -> Store(st, "orderID", parse_uint64_part000(mem, st.pos))
      [] k = 2  -> Store(st, "regionID", Narrow32(parse_uint64_part000(mem, st.pos + 3)))
      [] k = 3  -> Store(st, "systemID", Narrow32(parse_uint64_part000(mem, st.pos + 3)))
      [] k = 4  -> Store(st, "stationID", Narrow32(parse_uint64_part000(mem, st.pos + 3)))
      [] k = 5  -> Store(st, "typeID", Narrow32(parse_uint64_part000(mem, st.pos + 3)))
      [] k = 6  -> Store(st, "bid", Narrow8(parse_uint64_part000(mem, st.pos + 3)))
      [] k = 7  -> Store(st, "price", parser_price_part000(mem, st.pos + 3))
      [] k = 8  -> Store(st, "volMin", Narrow32(parse_uint64_part000(mem, st.pos + 3)))
      [] k = 9  -> Store(st, "volRem", Narrow32(parse_uint64_part000(mem, st.pos + 3)))
      [] k = 10 -> Store(st, "volEnt", Narrow32(parse_uint64_part000(mem, st.pos + 3)))
      [] k = 11 -> Store(st, "issued", parse_datetime_part000(mem, st.pos + 3, order))
      [] k = 12 -> Store(st, "duration", Narrow16(parse_uint64_part000(mem, st.pos + 3)))
      [] k = 13 -> Local(st, parse_uint64_part000(mem, st.pos))
      [] k = 14 -> Local(st, parse_uint64_part000(mem, st.pos))
      [] k = 15 -> Local(st, parse_uint64_part000(mem, st.pos))
      [] k = 16 -> IF At(mem, st.pos) = "."
                   THEN Local(st, parse_uint64_part000(mem, st.pos + 1)) ELSE st
      [] k = 17 -> Store(st, "range", parse_range_part000(mem, st.pos + 3))
      [] k = 18 -> Store(st, "reportedby", parse_uint64_part000(mem, st.pos + 3))
      [] k = 19 -> Store(st, "rtime", parse_datetime_part000(mem, st.pos + 3, order))

parser_first_part000 == 0
parser_last_part000 == 19

has_badval(x) ==
    The({ IF LessW(r.rtime, r.issued) THEN 1
          ELSE IF r.bid > 1 THEN 2
          ELSE IF r.range = -2 THEN 3
          ELSE 0 : r \in {x} })

\* if (rec->bid == 1) rec->range = -1;
buy_range_part000(x) == The({ IF r.bid = 1 THEN [r EXCEPT !.range = -1] ELSE r : r \in {x} })

parse_pt_bo_part000(a) ==
    The({ [status |-> has_badval(r2), rec |-> r2] :
          r2 \in {corrected(buy_range_part000(Fields(a)))} })

parse_pt_part000(a) ==
    The({ [status |-> has_badval(r1), rec |-> r1] : r1 \in {corrected(Fields(a))} })

parse_part000(a) == [status |-> has_badval(a), rec |-> Fields(a)]

-----------------------------------------------------------------------------
(* The input lines and dates                                                *)

MaxBid == 2          \* the bid field is one of 0..MaxBid
MaxCentDigits == 3   \* the price has 0..MaxCentDigits fractional digits
MinYear == 2005      \* the dates handed to parser_factory
MaxYear == 2008

Pad2(n) == <<DigitChars[(n \div 10) + 1], DigitChars[(n % 10) + 1]>>
Pad4(n) == Pad2(n \div 100) \o Pad2(n % 100)

\* "YYYY-MM-DD hh:mm:ss" and the fractional part, if any.
Stamp(t, frac) ==
    Pad4(t[1]) \o <<"-">> \o Pad2(t[2]) \o <<"-">> \o Pad2(t[3]) \o <<" ">>
    \o Pad2(t[4]) \o <<":">> \o Pad2(t[5]) \o <<":">> \o Pad2(t[6]) \o frac

CentDigits == <<"5", "6", "7", "8", "9">>
PriceTexts ==
    { <<"1", "2", "3", "4">> \o (IF k = 0 THEN <<>> ELSE <<".">> \o SubSeq(CentDigits, 1, k)) :
      k \in 0..MaxCentDigits }

\* issued and rtime as written in the line: a winter pair, a summer pair, two
\* pairs less than an hour apart around the instants at which pt_to_utc changes
\* its offset from +8h to +7h, and a pair with issued after rtime.
StampPairs ==
    { <<<<2006, 1, 15, 10, 0, 0>>,    <<2006, 1, 15, 10, 0, 1>>>>,
      <<<<2006, 7, 4, 12, 0, 0>>,     <<2006, 7, 4, 12, 0, 0>>>>,
      <<<<2006, 4, 2, 2, 59, 59>>,    <<2006, 4, 2, 3, 0, 0>>>>,
      <<<<2007, 3, 11, 2, 30, 0>>,    <<2007, 3, 11, 3, 10, 0>>>>,
      <<<<2007, 12, 31, 23, 59, 59>>, <<2007, 12, 31, 23, 59, 58>>>> }

\* The fractional seconds of issued and of rtime.
FracPairs ==
    { <<<<>>, <<>>>>,
      <<<<".", "6", "0", "0">>, <<>>>>,
      <<<<".", "5">>, <<".", "9">>>> }

\* The fractional seconds of the unused triplet that follows the duration.
TripletFracs == { <<>>, <<".", "5">> }

RangeTexts == { <<"-", "1">>, <<"0">>, <<"3">>, <<"3", "2", "7", "6", "7">> }

\* What a line is written from.  The fields that do not vary are written as
\* 1..9, the duration as 90 days and 01:02:03.
Written ==
    { [full |-> TRUE, bid |-> b, price |-> pr, issued |-> st[1], issuedFrac |-> fr[1],
       tripletFrac |-> tf, range |-> ra, rtime |-> st[2], rtimeFrac |-> fr[2]] :
        b \in 0..MaxBid, pr \in PriceTexts, st \in StampPairs, fr \in FracPairs,
        tf \in TripletFracs, ra \in RangeTexts }

Sep == <<"\"", ",", "\"">>

\* The fifteen quoted fields, "," between them.
Line(w) ==
    <<"\"", "1">> \o Sep \o <<"2">> \o Sep \o <<"3">> \o Sep \o <<"4">> \o Sep \o <<"5">>
    \o Sep \o <<DigitChars[w.bid + 1]>> \o Sep \o w.price
    \o Sep \o <<"6">> \o Sep \o <<"7">> \o Sep \o <<"8">>
    \o Sep \o Stamp(w.issued, w.issuedFrac)
    \o Sep \o <<"9", "0", ":", "0", "1", ":", "0", "2", ":", "0", "3">> \o w.tripletFrac
    \o Sep \o w.range \o Sep \o <<"9">> \o Sep \o Stamp(w.rtime, w.rtimeFrac) \o <<"\"">>

\* A line cut short at every point, with what may follow its terminator.
BaseWritten ==
    [full |-> FALSE, bid |-> 1, price |-> <<"1", "2", "3", "4", ".", "5">>,
     issued |-> <<2006, 1, 15, 10, 0, 0>>, issuedFrac |-> <<".", "6">>,
     tripletFrac |-> <<>>, range |-> <<"-", "1">>,
     rtime |-> <<2006, 1, 15, 10, 0, 1>>, rtimeFrac |-> <<>>]
BaseLine == Line(BaseWritten)
CutLines == { SubSeq(BaseLine, 1, n) : n \in 0..(Len(BaseLine) - 1) }
Tails == { <<>>, <<"5", "9", NUL, "7">> }

Inputs ==
    { [line |-> Line(w), tail |-> <<>>, written |-> w] : w \in Written }
    \cup { [line |-> l, tail |-> t, written |-> BaseWritten] : l \in CutLines, t \in Tails }

leap(y) == (y % 4 = 0 /\ y % 100 # 0) \/ y % 400 = 0
DaysIn(y, m) ==
    IF m = 2 THEN (IF leap(y) THEN 29 ELSE 28)
    ELSE IF m \in {4, 6, 9, 11} THEN 30 ELSE 31

\* The valid calendar dates of the years MinYear..MaxYear.
Dates ==
    { d \in (MinYear..MaxYear) \X (1..12) \X (1..31) : d[3] <= DaysIn(d[1], d[2]) }

-----------------------------------------------------------------------------
(* The state machine: one call of an entry point on one line, or one call  *)
(* of parser_factory on one date                                            *)

Impls == {"eve_parser", "part_000"}

InitLine ==
    /\ impl \in Impls
    /\ argOrder \in ArgOrders
    /\ \E in \in Inputs : line = in.line /\ tail = in.tail /\ written = in.written
    /\ pc = "ready"
    /\ date = <<0, 0, 0>>

InitDate ==
    /\ impl = "eve_parser"
    /\ argOrder = LeftToRight
    /\ line = <<>> /\ tail = <<>> /\ written = BaseWritten
    /\ pc = "date"
    /\ date \in Dates

Init ==
    /\ InitLine \/ InitDate
    /\ entry = "none"
    /\ stmt = 0
    /\ asm = Blank
    /\ rec = NoRec
    /\ status = -1
    /\ chosen = "none"
    /\ ejd = W(0)

\* The caller enters one of the three entry points, whose first statement is
\* the call of parser().
Call(name) ==
    /\ pc = "ready"
    /\ pc' = "parser"
    /\ entry' = name
    /\ stmt' = IF impl = "eve_parser" THEN parser_first ELSE parser_first_part000
    /\ UNCHANGED <<impl, argOrder, line, tail, asm, rec, status, date, chosen, ejd, written>>

Call_parse_pt_bo == Call("parse_pt_bo")
Call_parse_pt == Call("parse_pt")
Call_parse == Call("parse")

\* The next statement of parser(); after the last one parser() returns.
Parser ==
    /\ pc = "parser"
    /\ \E mem \in {Mem(line, tail)} :
           asm' = IF impl = "eve_parser" THEN parser_stmt(mem, argOrder, asm, stmt)
                  ELSE parser_stmt_part000(mem, argOrder, asm, stmt)
    /\ stmt' = stmt + 1
    /\ pc' = IF stmt = (IF impl = "eve_parser" THEN parser_last ELSE parser_last_part000)
             THEN "parsed" ELSE "parser"
    /\ UNCHANGED <<impl, argOrder, line, tail, entry, rec, status, date, chosen, ejd, written>>

\* The rest of the entry point, to its return.
Return(name, res) ==
    /\ pc = "parsed"
    /\ entry = name
    /\ pc' = "done"
    /\ rec' = res.rec
    /\ status' = res.status
    /\ UNCHANGED <<impl, argOrder, line, tail, entry, stmt, asm, date, chosen, ejd, written>>

Return_parse_pt_bo ==
    Return("parse_pt_bo",
           IF impl = "eve_parser" THEN parse_pt_bo(asm) ELSE parse_pt_bo_part000(asm))

Return_parse_pt ==
    Return("parse_pt", IF impl = "eve_parser" THEN parse_pt(asm) ELSE parse_pt_part000(asm))

Return_parse ==
    Return("parse", IF impl = "eve_parser" THEN parse(asm) ELSE parse_part000(asm))

\* parser_factory(date), with the value of its ejday call kept beside it.
Call_parser_factory ==
    /\ pc = "date"
    /\ pc' = "dated"
    /\ chosen' = parser_factory(date[1], date[2], date[3])
    /\ ejd' = ejday(W32(date[1]), W32(date[2]), W32(date[3]))
    /\ UNCHANGED <<impl, argOrder, line, tail, entry, stmt, asm, rec, status, date, written>>

Next ==
    \/ Call_parse_pt_bo \/ Call_parse_pt \/ Call_parse
    \/ Parser
    \/ Return_parse_pt_bo \/ Return_parse_pt \/ Return_parse
    \/ Call_parser_factory

Spec == Init /\ [][Next]_vars

-----------------------------------------------------------------------------
(* The properties                                                           *)

Hours(n) == W(n * SEC_PER_HOUR)

\* What the specification says a timestamp text assembles to: the day number
\* of its date, the time of day, and one more second when the first digit of
\* the fraction is 6..9.
ExpectedStamp(t, frac) ==
    Add32(Add32(Add32(Add32(ejday(W32(t[1]), W32(t[2]), W32(t[3])),
                            Mul32(W32(t[4]), SEC_PER_HOUR)),
                      Mul32(W32(t[5]), SEC_PER_MIN)),
                W32(t[6])),
          W32(IF Len(frac) >= 2 /\ frac[2] \in {"6", "7", "8", "9"} THEN 1 ELSE 0))

\* The number a digit string writes, and the number of hundredths a price text
\* writes: W * 100 + a * 10 + b.
RECURSIVE NumberOf(_)
NumberOf(text) ==
    IF text = <<>> THEN 0
    ELSE NumberOf(SubSeq(text, 1, Len(text) - 1)) * 10 + (Ord(text[Len(text)]) - Ord("0"))

DotOf(text) ==
    IF \E i \in 1..Len(text) : text[i] = "."
    THEN CHOOSE i \in 1..Len(text) : text[i] = "."
    ELSE Len(text) + 1

ExpectedPrice(text) ==
    NumberOf(SubSeq(text, 1, DotOf(text) - 1)) * 100
    + (IF DotOf(text) + 1 <= Len(text) THEN NumberOf(<<text[DotOf(text) + 1]>>) * 10 ELSE 0)
    + (IF DotOf(text) + 2 <= Len(text) THEN NumberOf(<<text[DotOf(text) + 2]>>) ELSE 0)

\* The stored code of a range text, by the Range Encoder's table.
ExpectedRange(text) ==
    IF text[1] = "-" THEN -1
    ELSE CASE NumberOf(text) \in {0, 5, 10, 20, 40} -> NumberOf(text)
           [] NumberOf(text) \in {32767, 65535}     -> 127
           [] OTHER                                 -> -2

\* A timestamp text assembled on its own by the implementation at hand.
OwnStamp(t, frac) ==
    IF impl = "eve_parser"
    THEN parser_datetime(Mem(Stamp(t, frac), <<>>), 1, argOrder).val
    ELSE parse_datetime_part000(Mem(Stamp(t, frac), <<>>), 1, argOrder).val

\* The days from 1970-01-01 to a date of the Gregorian calendar.
DaysSince1970(d) ==
    LET y   == IF d[2] <= 2 THEN d[1] - 1 ELSE d[1]
        era == y \div 400
        yoe == y - era * 400
        mp  == IF d[2] > 2 THEN d[2] - 3 ELSE d[2] + 9
        doy == (153 * mp + 2) \div 5 + d[3] - 1
        doe == yoe * 365 + yoe \div 4 - yoe \div 100 + doy
    IN  era * 146097 + doe - 719468

DateBefore(d, e) ==
    \/ d[1] < e[1]
    \/ d[1] = e[1] /\ d[2] < e[2]
    \/ d[1] = e[1] /\ d[2] = e[2] /\ d[3] < e[3]

\* The epoch the specification gives a date.
Epoch(d) ==
    IF DateBefore(d, <<2007, 1, 1>>) THEN "parse_pt_bo"
    ELSE IF DateBefore(d, <<2007, 10, 1>>) THEN "parse_pt"
    ELSE "parse"

\* C1: a line whose bid field parses to a value other than 0 or 1 is rejected
\* with status exactly 1 by each of the three entry points.
C1_BadBidRejected ==
    pc = "done" /\ asm.bid \notin {0, 1} => status = 1

\* C2: whenever an entry point returns status 0, the record it returns has
\* issued <= rtime.
C2_AcceptedIsOrdered ==
    pc = "done" /\ status = 0 => ~LessW(rec.rtime, rec.issued)

\* C3: parser_factory returns parse_pt_bo for the dates before 2007-01-01,
\* parse_pt for the dates from 2007-01-01 to 2007-09-30 and parse for the dates
\* from 2007-10-01 on.
C3_EpochPartition ==
    pc = "dated" => chosen = Epoch(date)

\* C4: for a valid calendar date, ejday is 86400 times the number of days from
\* 1970-01-01 to that date.
C4_TrueDayCount ==
    pc = "dated" => ejd = MulW(W(DaysSince1970(date)), SEC_PER_DAY)

\* C5: issued and rtime of a well-formed line are assembled as ejday(Y, M, D)
\* + h * 3600 + m * 60 + s, plus one when the first fractional digit is 6..9.
C5_RoundsOnFirstFraction ==
    pc = "done" /\ written.full =>
        /\ asm.issued = ExpectedStamp(written.issued, written.issuedFrac)
        /\ asm.rtime = ExpectedStamp(written.rtime, written.rtimeFrac)

\* C6: the price of a well-formed line is W * 100 + a * 10 + b, where W is the
\* integer part of the price text and a, b its first two fractional digits
\* (zero where absent); further fractional digits do not count.
C6_PriceAssembly ==
    pc = "done" /\ written.full => asm.price = W(ExpectedPrice(written.price))

\* C6 happens: a price written with three fractional digits, 1234.567, was
\* assembled to 123456.
C6_Witness ==
    /\ pc = "done" /\ written.full
    /\ written.price = <<"1", "2", "3", "4", ".", "5", "6", "7">>
    /\ asm.price = W(123456)

\* C7: parse_pt_bo, on a well-formed line with bid = 1 and any range text,
\* returns a record whose range is -1, and returns status 0 whenever the
\* assembled issued <= rtime.
C7_BuyOrderRange ==
    pc = "done" /\ entry = "parse_pt_bo" /\ written.full /\ written.bid = 1 =>
        /\ rec.range = -1
        /\ ~LessW(asm.rtime, asm.issued) => status = 0

\* C7 happens: a buy order whose range text, 3, assembles to the invalid code
\* was accepted by parse_pt_bo with range -1.
C7_Witness ==
    /\ pc = "done" /\ entry = "parse_pt_bo" /\ written.full /\ written.bid = 1
    /\ written.range = <<"3">>
    /\ asm.range = -2
    /\ rec.range = -1
    /\ status = 0

IsCorrected ==
    /\ rec.issued = pt_to_utc(asm.issued)
    /\ rec.issued \in {Add32(asm.issued, Hours(7)), Add32(asm.issued, Hours(8))}
    /\ rec.rtime = pt_to_utc(asm.rtime)
    /\ rec.rtime \in {Add32(asm.rtime, Hours(7)), Add32(asm.rtime, Hours(8))}

IsUncorrected == rec.issued = asm.issued /\ rec.rtime = asm.rtime

\* C8: in parse_pt_bo and parse_pt the record's issued and rtime are
\* the assembled values when the status is 1 and the assembled values plus the
\* 7 or 8 hours of pt_to_utc when the status is 0; in parse they are always
\* the assembled values.
C8_CorrectedOnlyOnAcceptance ==
    pc = "done" =>
        IF entry = "parse" THEN IsUncorrected
        ELSE /\ status = 1 => IsUncorrected
             /\ status = 0 => IsCorrected

\* C9: on a well-formed line, whatever optional sub-tokens it carries, range
\* is -1 for a range text with a minus sign, and duration, range, reportedby
\* and rtime are each read from their own field.
C9_PositionalAlignment ==
    pc = "done" /\ written.full =>
        /\ asm.duration = 90
        /\ asm.range = ExpectedRange(written.range)
        /\ asm.reportedby = W(9)
        /\ asm.rtime = OwnStamp(written.rtime, written.rtimeFrac)

\* C10: on any line, cut short or not, the read cursor never passes the
\* terminating null byte.
C10_CursorWithinLine ==
    pc \in {"parser", "parsed", "done"} => asm.pos <= Len(line) + 1

=============================================================================
